---- MODULE Spec2Model ----
(***************************************************************************)
(* Hexagon hotspot engine of src/etl/compute_hotspots.py.                  *)
(*                                                                         *)
(* One run of main() is modelled as a state machine whose positions are    *)
(* the pipeline steps: load_points, the empty check, make_hex_grid, the    *)
(* spatial join with its group-by and merge, the density columns and the   *)
(* export.                                                                 *)
(*                                                                         *)
(* Arithmetic is fixed point.  Planar (EPSG:3857) coordinates are held in  *)
(* thousandths of a metre, so that R*cos(k*pi/3), R*sin(k*pi/3),           *)
(* R*sqrt(3) and R*1.5 are integers for an integer radius in metres (the   *)
(* --hex_m option is type=int).  Geographic (EPSG:4326) coordinates are    *)
(* held in units of 1e-8 degree, relative to a reference corner close to   *)
(* the equator, where one such unit is 1.11 thousandths of a metre on both *)
(* axes; both projection directions round, as the floating point           *)
(* transformer does.                                                       *)
(***************************************************************************)
EXTENDS Integers, Sequences, FiniteSets, TLC

VARIABLES pc, inputs, hex_m, weight_field, pts, columns, log, hex_gdf,
          hex_columns, joined, out_file

vars == <<pc, inputs, hex_m, weight_field, pts, columns, log, hex_gdf,
          hex_columns, joined, out_file>>

(* ------------------------------ bounds -------------------------------- *)
MaxFiles == 2
MaxRadius == 2

(* ------------------------------ helpers ------------------------------- *)
RECURSIVE SumSeq(_)
SumSeq(s) ==
    IF Len(s) = 0 THEN 0
    ELSE IF Len(s) = 1 THEN s[1]
    ELSE SumSeq(SubSeq(s, 1, Len(s) \div 2))
         + SumSeq(SubSeq(s, (Len(s) \div 2) + 1, Len(s)))

RECURSIVE Concat(_)
Concat(ss) == IF ss = <<>> THEN <<>> ELSE Head(ss) \o Concat(Tail(ss))

MinOf(S) == CHOOSE m \in S : \A n \in S : m <= n
MaxOf(S) == CHOOSE m \in S : \A n \in S : m >= n

Abs(a) == IF a < 0 THEN -a ELSE a

(* math.ceil(a / b) for b # 0 *)
CeilDiv(a, b) == IF b > 0 THEN -((-a) \div b) ELSE -(a \div (-b))

(* --------------------------- projection ------------------------------- *)
(* EPSG:4326 -> EPSG:3857 on one axis: 1e-8 degree is 1.11 thousandths of *)
(* a metre                                                                *)
to_merc(w) == (w * 111) \div 100
(* EPSG:3857 -> EPSG:4326 on one axis *)
to_wgs(m) == (m * 100) \div 111

(* --------------------------- input space ------------------------------ *)
PointFeature(x, y, hasw, w) ==
    [gtype |-> "Point", x |-> x, y |-> y, hasw |-> hasw, w |-> w]

LineFeature ==
    [gtype |-> "LineString", x |-> 0, y |-> 0, hasw |-> FALSE, w |-> 0]

PA == PointFeature(0, 0, FALSE, 0)
PB == PointFeature(1300, 0, TRUE, -1)
PC == PointFeature(200, 300, TRUE, 2)

(* what a readable GeoJSON file may hold *)
FeatureLists ==
    { <<>>, <<LineFeature>>, <<PA>>, <<PC>>,
      <<PA, LineFeature, PC>>, <<PB, PA>> }

Files ==
    { [kind |-> "missing", feats |-> <<>>],
      [kind |-> "unreadable", feats |-> <<>>] }
    \cup { [kind |-> "ok", feats |-> fs] : fs \in FeatureLists }

Radii == -1..MaxRadius

WeightFields == {"none", "w"}

StaleRecord ==
    [hex_id |-> 0, value |-> 7, area_km2 |-> 1, density_per_km2 |-> <<7, 1>>,
     geometry |-> <<>>]

OutFiles ==
    { [state |-> "absent", records |-> <<>>],
      [state |-> "stale", records |-> <<StaleRecord>>] }

(* ---------------------------- load_points ----------------------------- *)
(* a loader that keeps every geometry type *)
PointsOfAll(feats) == feats

PointsOf(feats) == SelectSeq(feats, LAMBDA ft : ft.gtype = "Point")

(* the frame one input contributes, <<>> when it is skipped *)
FrameOf(f) == IF f.kind = "ok" THEN PointsOf(f.feats) ELSE <<>>

(* the columns a frame brings: the properties of the file's features *)
ColumnsOf(f) ==
    IF f.kind = "ok" /\ PointsOf(f.feats) # <<>>
       /\ \E i \in 1..Len(f.feats) : f.feats[i].hasw
    THEN {"w"} ELSE {}

(* a loader whose handler swallows the exception without a message *)
LogOfSilent(f, i) ==
    IF f.kind = "ok" /\ PointsOf(f.feats) # <<>>
    THEN <<[level |-> "INFO", file |-> i]>>
    ELSE <<>>

LogOf(f, i) ==
    IF f.kind = "unreadable" THEN <<[level |-> "WARN", file |-> i]>>
    ELSE IF f.kind = "ok" /\ PointsOf(f.feats) # <<>>
         THEN <<[level |-> "INFO", file |-> i]>>
         ELSE <<>>

(* a loader that stops at the first input it cannot use *)
load_points_stop(in_files) ==
    LET bad == { i \in 1..Len(in_files) : in_files[i].kind # "ok" }
        n == IF bad = {} THEN Len(in_files) ELSE MinOf(bad) - 1
    IN [ rows |-> Concat([i \in 1..n |-> FrameOf(in_files[i])]),
         columns |-> UNION {ColumnsOf(in_files[i]) : i \in 1..n},
         log |-> Concat([i \in 1..Len(in_files) |-> LogOf(in_files[i], i)]) ]

load_points(in_files) ==
    [ rows |-> Concat([i \in 1..Len(in_files) |-> FrameOf(in_files[i])]),
      columns |-> UNION {ColumnsOf(in_files[i]) : i \in 1..Len(in_files)},
      log |-> Concat([i \in 1..Len(in_files) |-> LogOf(in_files[i], i)]) ]

(* pts.total_bounds *)
total_bounds(p) ==
    [ minx |-> MinOf({p[i].x : i \in 1..Len(p)}),
      miny |-> MinOf({p[i].y : i \in 1..Len(p)}),
      maxx |-> MaxOf({p[i].x : i \in 1..Len(p)}),
      maxy |-> MaxOf({p[i].y : i \in 1..Len(p)}) ]

(* --------------------------- make_hex_grid ---------------------------- *)
(* R * cos(pi/3 * i) and R * sin(pi/3 * i), i = 0..5, in thousandths *)
CosK == <<1000, 500, -500, -1000, -500, 500>>
SinK == <<0, 866, 866, 0, -866, -866>>

Pad(R) == R * 2 * 1000
(* a horizontal spacing that ignores the radius *)
DxFixed(R) == 1732

Dx(R) == R * 1732
Dy(R) == R * 1500

GridBox(b, R) ==
    [ minx_m |-> to_merc(b.minx) - Pad(R),
      miny_m |-> to_merc(b.miny) - Pad(R),
      maxx_m |-> to_merc(b.maxx) + Pad(R),
      maxy_m |-> to_merc(b.maxy) + Pad(R) ]

Cols(b, R) == CeilDiv(GridBox(b, R).maxx_m - GridBox(b, R).minx_m, Dx(R)) + 1
Rows(b, R) == CeilDiv(GridBox(b, R).maxy_m - GridBox(b, R).miny_m, Dy(R)) + 1

(* centre of the hexagon of row r, column c, planar *)
CenterX(b, R, r, c) ==
    GridBox(b, R).minx_m + c * Dx(R) + (IF r % 2 = 1 THEN Dx(R) \div 2 ELSE 0)
CenterY(b, R, r) == GridBox(b, R).miny_m + r * Dy(R)

(* the six vertices, each projected back to EPSG:4326 *)
HexVerts(cx, cy, R) ==
    [ i \in 1..6 |-> << to_wgs(cx + R * CosK[i]), to_wgs(cy + R * SinK[i]) >> ]

(* range(n) has no element when n <= 0 *)
RangeLen(n) == IF n > 0 THEN n ELSE 0

(* the inner loop, for c in range(cols): the polygons appended for row r *)
RowPolys(b, R, r) ==
    [ c \in 1..RangeLen(Cols(b, R)) |->
        HexVerts(CenterX(b, R, r, c - 1), CenterY(b, R, r), R) ]

(* a generator whose loops are nested the other way round *)
make_hex_grid_by_column(b, R) ==
    Concat([ c \in 1..RangeLen(Cols(b, R)) |->
               [ r \in 1..RangeLen(Rows(b, R)) |->
                   HexVerts(CenterX(b, R, r - 1, c - 1),
                            CenterY(b, R, r - 1), R) ] ])

(* the outer loop, for r in range(rows): polys in the order of the appends *)
make_hex_grid(b, R) ==
    Concat([ r \in 1..RangeLen(Rows(b, R)) |-> RowPolys(b, R, r - 1) ])

(* ------------------------ spatial join (sjoin) ------------------------ *)
(* cross product of edge a->b with a->p *)
Cross(a, b, px, py) ==
    (b[1] - a[1]) * (py - a[2]) - (b[2] - a[2]) * (px - a[1])

(* a containment test that takes the boundary as inside *)
within_closed(px, py, poly) ==
    \/ \A i \in 1..6 : Cross(poly[i], poly[(i % 6) + 1], px, py) >= 0
    \/ \A i \in 1..6 : Cross(poly[i], poly[(i % 6) + 1], px, py) <= 0

(* predicate="within": the point is in the interior of the polygon, a      *)
(* point on the boundary is not within                                     *)
within(px, py, poly) ==
    \/ \A i \in 1..6 : Cross(poly[i], poly[(i % 6) + 1], px, py) > 0
    \/ \A i \in 1..6 : Cross(poly[i], poly[(i % 6) + 1], px, py) < 0

(* gpd.sjoin(pts, hex_gdf, how="inner", predicate="within"): one row per   *)
(* (point, hexagon) pair, here <<index of the point, hex_id>>              *)
sjoin(p, gdf) ==
    { <<pr[1], gdf[pr[2]].hex_id>> :
        pr \in { q \in (1..Len(p)) \X (1..Len(gdf)) :
                   within(p[q[1]].x, p[q[1]].y, gdf[q[2]].geometry) } }

(* what one joined row adds to its group: Series.sum() skips missing       *)
(* values, size() counts rows                                              *)
Weighted(wf, cols) == wf # "none" /\ wf \in cols

(* a per-point fallback: a row without the weight counts as 1 *)
RowValuePerPoint(pt, weighted) ==
    IF weighted /\ pt.hasw THEN pt.w ELSE 1

RowValue(pt, weighted) ==
    IF weighted THEN (IF pt.hasw THEN pt.w ELSE 0) ELSE 1

(* groupby("hex_id") then merge(how="left").fillna({"value": 0}) *)
HexValue(h, p, j, weighted) ==
    SumSeq([ i \in 1..Len(p) |->
               IF <<i, h>> \in j THEN RowValue(p[i], weighted) ELSE 0 ])

(* an inner merge: hexagons without a group are dropped *)
merge_inner(gdf, p, j, weighted) ==
    LET kept == SelectSeq(gdf, LAMBDA h : \E pr \in j : pr[2] = h.hex_id)
    IN [ k \in 1..Len(kept) |->
           [kept[k] EXCEPT !.value = HexValue(kept[k].hex_id, p, j, weighted)] ]

(* hex_gdf.merge(agg, on="hex_id", how="left").fillna({"value": 0}): every *)
(* row of hex_gdf is kept, with the group's value or 0                     *)
merge_left(gdf, p, j, weighted) ==
    [ k \in 1..Len(gdf) |->
        [gdf[k] EXCEPT !.value = HexValue(gdf[k].hex_id, p, j, weighted)] ]

(* ------------------------------ density ------------------------------- *)
(* a signed shoelace sum taken in the other direction *)
Area2Signed(poly) ==
    LET mx(i) == to_merc(poly[i][1]) - to_merc(poly[1][1])
        my(i) == to_merc(poly[i][2]) - to_merc(poly[1][2])
    IN SumSeq([ i \in 1..6 |->
                  mx((i % 6) + 1) * my(i) - mx(i) * my((i % 6) + 1) ])

(* twice the shoelace area of the polygon projected to EPSG:3857, taken    *)
(* relative to its first vertex                                            *)
Area2(poly) ==
    LET mx(i) == to_merc(poly[i][1]) - to_merc(poly[1][1])
        my(i) == to_merc(poly[i][2]) - to_merc(poly[1][2])
    IN Abs(SumSeq([ i \in 1..6 |->
                      mx(i) * my((i % 6) + 1) - mx((i % 6) + 1) * my(i) ]))

(* a density without the guard of line 129 *)
DensityUnguarded(value, area) == <<value, area>>

(* value / area_km2 as the fraction <<numerator, denominator>>, 0.0 as     *)
(* <<0, 1>>                                                                *)
Density(value, area) == IF area > 0 THEN <<value, area>> ELSE <<0, 1>>

(* ------------------------------- main --------------------------------- *)
NewHex(k, poly) ==
    [hex_id |-> k, geometry |-> poly, value |-> 0, area_km2 |-> 0,
     density_per_km2 |-> <<0, 1>>]

(* GeoDataFrame(geometry=hexes).reset_index(names="hex_id") *)
reset_index(hexes) ==
    [ k \in DOMAIN hexes |-> NewHex(k - 1, hexes[k]) ]

(* an emptiness test that is off by one *)
pts_empty_off(p) == Len(p) <= 1

(* pts.empty *)
pts_empty(p) == Len(p) = 0

Init ==
    /\ pc = "start"
    /\ inputs \in UNION {[1..n -> Files] : n \in 0..MaxFiles}
    /\ hex_m \in Radii
    /\ weight_field \in WeightFields
    /\ out_file \in OutFiles
    /\ pts = <<>>
    /\ columns = {}
    /\ log = <<>>
    /\ hex_gdf = <<>>
    /\ hex_columns = {}
    /\ joined = {}

(* line 101: pts = load_points(args.inputs) *)
LoadPoints ==
    /\ pc = "start"
    /\ pts' = load_points(inputs).rows
    /\ columns' = load_points(inputs).columns
    /\ log' = log \o load_points(inputs).log
    /\ pc' = "loaded"
    /\ UNCHANGED <<inputs, hex_m, weight_field, hex_gdf, hex_columns, joined,
                   out_file>>

(* an early return that first writes an empty output *)
ReportNoDataAndWrite ==
    /\ pc = "loaded"
    /\ pts_empty(pts)
    /\ out_file' = [state |-> "written", records |-> <<>>]
    /\ log' = Append(log, [level |-> "ERROR", file |-> 0])
    /\ pc' = "nodata"
    /\ UNCHANGED <<inputs, hex_m, weight_field, pts, columns, hex_gdf,
                   hex_columns, joined>>

(* lines 102-104: no point data, report and return *)
ReportNoData ==
    /\ pc = "loaded"
    /\ pts_empty(pts)
    /\ log' = Append(log, [level |-> "ERROR", file |-> 0])
    /\ pc' = "nodata"
    /\ UNCHANGED <<inputs, hex_m, weight_field, pts, columns, hex_gdf,
                   hex_columns, joined, out_file>>

(* lines 106-111 with a radius of 0: dx = 0.0 and the division of line 46  *)
(* raises ZeroDivisionError, which nothing catches                         *)
ZeroDivision ==
    /\ pc = "loaded"
    /\ ~pts_empty(pts)
    /\ Dx(hex_m) = 0
    /\ log' = Append(log, [level |-> "ZeroDivisionError", file |-> 0])
    /\ pc' = "crashed"
    /\ UNCHANGED <<inputs, hex_m, weight_field, pts, columns, hex_gdf,
                   hex_columns, joined, out_file>>

(* lines 106-111: bounds, make_hex_grid, the frame and its hex_id column *)
MakeHexGrid ==
    /\ pc = "loaded"
    /\ ~pts_empty(pts)
    /\ Dx(hex_m) # 0
    /\ hex_gdf' = reset_index(make_hex_grid(total_bounds(pts), hex_m))
    /\ hex_columns' = {"geometry", "hex_id"}
    /\ pc' = "grid"
    /\ UNCHANGED <<inputs, hex_m, weight_field, pts, columns, log, joined,
                   out_file>>

(* lines 112-122: the join, the group-by and the merge back *)
Aggregate ==
    /\ pc = "grid"
    /\ joined' = sjoin(pts, hex_gdf)
    /\ hex_gdf' = merge_left(hex_gdf, pts, joined',
                             Weighted(weight_field, columns))
    /\ hex_columns' = hex_columns \cup {"value"}
    /\ pc' = "aggregated"
    /\ UNCHANGED <<inputs, hex_m, weight_field, pts, columns, log, out_file>>

(* a density step that keeps only the hexagons holding something *)
ComputeDensitySparse ==
    /\ pc = "aggregated"
    /\ hex_gdf' =
          LET kept == SelectSeq(hex_gdf, LAMBDA h : h.value # 0)
          IN [k \in 1..Len(kept) |->
                [kept[k] EXCEPT
                   !.area_km2 = Area2(kept[k].geometry),
                   !.density_per_km2 =
                       Density(kept[k].value, Area2(kept[k].geometry))]]
    /\ hex_columns' = hex_columns \cup {"area_km2", "density_per_km2"}
    /\ pc' = "density"
    /\ UNCHANGED <<inputs, hex_m, weight_field, pts, columns, log, joined,
                   out_file>>

(* lines 125-130: area_km2 and density_per_km2 *)
ComputeDensity ==
    /\ pc = "aggregated"
    /\ hex_gdf' = [k \in 1..Len(hex_gdf) |->
           [hex_gdf[k] EXCEPT
              !.area_km2 = Area2(hex_gdf[k].geometry),
              !.density_per_km2 =
                  Density(hex_gdf[k].value, Area2(hex_gdf[k].geometry))]]
    /\ hex_columns' = hex_columns \cup {"area_km2", "density_per_km2"}
    /\ pc' = "density"
    /\ UNCHANGED <<inputs, hex_m, weight_field, pts, columns, log, joined,
                   out_file>>

(* a writer that appends to what the file holds *)
to_file_append(old, gdf) ==
    [state |-> "written", records |-> old.records \o gdf]

(* export.to_file(out_path, driver="GeoJSON"): the file is created or      *)
(* replaced, its earlier content is not read                               *)
to_file(old, gdf) ==
    [state |-> "written", records |-> gdf]

(* an export that starts as soon as the values are merged *)
ExportEarly ==
    /\ pc = "aggregated"
    /\ out_file' = to_file(out_file, hex_gdf)
    /\ log' = Append(log, [level |-> "OK", file |-> 0])
    /\ pc' = "done"
    /\ UNCHANGED <<inputs, hex_m, weight_field, pts, columns, hex_gdf,
                   hex_columns, joined>>

(* lines 132-137: the export *)
Export ==
    /\ pc = "density"
    /\ out_file' = to_file(out_file, hex_gdf)
    /\ log' = Append(log, [level |-> "OK", file |-> 0])
    /\ pc' = "done"
    /\ UNCHANGED <<inputs, hex_m, weight_field, pts, columns, hex_gdf,
                   hex_columns, joined>>

Next ==
    \/ LoadPoints
    \/ ReportNoData
    \/ ZeroDivision
    \/ MakeHexGrid
    \/ Aggregate
    \/ ComputeDensity
    \/ Export

Spec == Init /\ [][Next]_vars

(* ------------------- the density step on its own ---------------------- *)
(* Lines 125-130 applied to any frame that reaches them, including a       *)
(* polygon of zero area (all vertices collapsed) as a misconfigured        *)
(* projection would produce.                                               *)
MaxRows == 2

SampleGeometries ==
    { HexVerts(0, 0, 1), HexVerts(5000, 3000, 2),
      [i \in 1..6 |-> <<0, 0>>],
      [i \in 1..6 |-> <<i * 100, 0>>] }

SampleValues == {-1, 0, 2, 3}

SampleFrames ==
    UNION { [1..n -> [geometry : SampleGeometries, value : SampleValues]] :
            n \in 1..MaxRows }

InitDensity ==
    /\ pc = "aggregated"
    /\ \E fr \in SampleFrames :
          hex_gdf = [k \in 1..Len(fr) |->
                       [NewHex(k - 1, fr[k].geometry) EXCEPT
                          !.value = fr[k].value]]
    /\ hex_columns = {"geometry", "hex_id", "value"}
    /\ out_file \in OutFiles
    /\ inputs = <<>>
    /\ hex_m = 1
    /\ weight_field = "none"
    /\ pts = <<>>
    /\ columns = {}
    /\ log = <<>>
    /\ joined = {}

NextDensity ==
    \/ ComputeDensity
    \/ Export

SpecDensity == InitDensity /\ [][NextDensity]_vars

(* -------------------- runs over wider point sets ---------------------- *)
(* The pipeline run on one readable file: either the two opposite corners  *)
(* of a bounding box, for boxes from a single point up to several cell     *)
(* spacings wide and high, or four points laid out as (103.76, 1.46),      *)
(* (103.77, 1.47), (103.90, 1.55), (103.60, 1.40) are for a radius of      *)
(* 2000 m, at the scale 1:2000 (radius 1 m, offsets from the south-west    *)
(* point in 1e-8 degree).                                                  *)
Extents == {0, 1300, 3200, 6500}

BoxFile(w, h) ==
    [kind |-> "ok", feats |-> <<PA, PointFeature(w, h, FALSE, 0)>>]

ExampleFile ==
    [kind |-> "ok",
     feats |-> << PointFeature(8000, 3000, FALSE, 0),
                  PointFeature(8500, 3500, FALSE, 0),
                  PointFeature(15000, 7500, FALSE, 0),
                  PointFeature(0, 0, FALSE, 0) >>]

(* three points of which, at a radius of 1 m, the second lies on the lower  *)
(* edge of a hexagon and the third where two hexagons overlap              *)
EdgeFile ==
    [kind |-> "ok",
     feats |-> << PA, PointFeature(100, 120, FALSE, 0),
                  PointFeature(100, 200, FALSE, 0) >>]

InitGrid ==
    /\ pc = "start"
    /\ \/ \E w \in Extents, h \in Extents : inputs = <<BoxFile(w, h)>>
       \/ inputs = <<ExampleFile>>
       \/ inputs = <<EdgeFile>>
    /\ hex_m \in 1..MaxRadius
    /\ weight_field \in WeightFields
    /\ out_file \in OutFiles
    /\ pts = <<>>
    /\ columns = {}
    /\ log = <<>>
    /\ hex_gdf = <<>>
    /\ hex_columns = {}
    /\ joined = {}

NextGrid ==
    \/ LoadPoints
    \/ MakeHexGrid
    \/ Aggregate
    \/ ComputeDensity
    \/ Export

SpecGrid == InitGrid /\ [][NextGrid]_vars

(* ============================== claims ================================ *)
GridBuilt == pc \in {"grid", "aggregated", "density", "done"}
Aggregated == pc \in {"aggregated", "density", "done"}

(* the hexagons of the grid whose interior holds the point *)
Containing(pt) ==
    { k \in 1..Len(hex_gdf) : within(pt.x, pt.y, hex_gdf[k].geometry) }

TotalValue == SumSeq([k \in 1..Len(hex_gdf) |-> hex_gdf[k].value])

(* C1. Coverage: with a positive radius every loaded point (each lies in   *)
(* the unpadded bounding box, which is derived from the points) is inside  *)
(* exactly one hexagon of the grid.                                        *)
C1_Coverage ==
    (GridBuilt /\ hex_m > 0) =>
        \A i \in 1..Len(pts) : Cardinality(Containing(pts[i])) = 1

(* C2. Conservation: after aggregation with a positive radius the values   *)
(* of all hexagons sum to the number of loaded points in an unweighted     *)
(* run, and to the sum of the points' weights in a weighted run.           *)
C2_Conservation ==
    (Aggregated /\ hex_m > 0) =>
        IF weight_field # "none" /\ weight_field \in columns
        THEN TotalValue =
               SumSeq([i \in 1..Len(pts) |->
                         IF pts[i].hasw THEN pts[i].w ELSE 0])
        ELSE TotalValue = Len(pts)

(* C3. No double counting: the join assigns each point to at most one      *)
(* hexagon.                                                                *)
C3_NoDoubleCount ==
    (Aggregated /\ hex_m > 0) =>
        \A i \in 1..Len(pts) :
            Cardinality({ pr \in joined : pr[1] = i }) <= 1

(* C4 as claimed: with weight_field given, a point carrying the field adds *)
(* its weight to each hexagon holding it and a point without the field     *)
(* adds 1; without weight_field every point adds 1.                        *)
C4_PerPointFallback ==
    Aggregated =>
        \A k \in 1..Len(hex_gdf) :
            hex_gdf[k].value =
                SumSeq([ i \in 1..Len(pts) |->
                    IF k \notin Containing(pts[i]) THEN 0
                    ELSE IF weight_field # "none" /\ pts[i].hasw
                         THEN pts[i].w ELSE 1 ])

(* C4 amended: the choice is made once per run.  When weight_field is      *)
(* given and is a column of the loaded points, a point carrying the field  *)
(* adds its weight to each hexagon holding it and a point without it adds  *)
(* nothing; when weight_field is not given or no loaded file has the       *)
(* column, every point adds 1 to each hexagon holding it.                  *)
C4_PerRunChoice ==
    Aggregated =>
        \A k \in 1..Len(hex_gdf) :
            hex_gdf[k].value =
                SumSeq([ i \in 1..Len(pts) |->
                    IF k \notin Containing(pts[i]) THEN 0
                    ELSE IF weight_field = "none" \/ weight_field \notin columns
                         THEN 1
                         ELSE IF pts[i].hasw THEN pts[i].w ELSE 0 ])

(* a weighted run in which a covered point has no weight and another has *)
C4_Witness ==
    /\ pc = "done"
    /\ weight_field = "w"
    /\ \E i, n \in 1..Len(pts) :
          /\ ~pts[i].hasw /\ Containing(pts[i]) # {}
          /\ pts[n].hasw /\ Containing(pts[n]) # {}

(* C5. A radius <= 0 ends the run with an invalid-parameter failure: the   *)
(* run neither dies of an arithmetic error nor completes.                  *)
C5_InvalidRadiusRejected ==
    hex_m <= 0 => pc \notin {"crashed", "done"}

(* C6. With a radius <= 0 the failure comes before any computation: no     *)
(* input is ever loaded and no hexagon is ever generated.                  *)
C6_RejectedBeforeLoad ==
    hex_m <= 0 => (pc = "start" /\ log = <<>> /\ pts = <<>> /\ hex_gdf = <<>>)

(* C7. Exit behaviour with a positive radius: a run with no loaded point   *)
(* goes from the load to the early return and never writes; a run with a   *)
(* loaded point never takes the early return and never fails, and has      *)
(* written the file exactly when it has reached the end of main.           *)
C7_ExitBehaviour ==
    (hex_m > 0 /\ pc # "start") =>
        /\ pts = <<>> =>
              (pc \in {"loaded", "nodata"} /\ out_file.state # "written")
        /\ pts # <<>> =>
              /\ pc \in {"loaded", "grid", "aggregated", "density", "done"}
              /\ pc = "loaded" => Dx(hex_m) # 0
              /\ out_file.state = "written" <=> pc = "done"

(* a run that wrote a grid in which every hexagon has value 0 *)
C7_Witness ==
    /\ pc = "done"
    /\ hex_m > 0
    /\ out_file.state = "written"
    /\ Len(out_file.records) > 0
    /\ \A k \in 1..Len(out_file.records) : out_file.records[k].value = 0

(* the point features of the usable inputs, in input order *)
RECURSIVE UsablePoints(_)
UsablePoints(fs) ==
    IF fs = <<>> THEN <<>>
    ELSE (IF Head(fs).kind \in {"missing", "unreadable"} THEN <<>>
          ELSE SelectSeq(Head(fs).feats, LAMBDA ft : ft.gtype = "Point"))
         \o UsablePoints(Tail(fs))

(* C8. Partial input failure is not fatal: whatever inputs are missing,    *)
(* unreadable, empty or without points, the loader returns all points of   *)
(* the others, and the run reports "no point data" and stops only when no  *)
(* point is left (with a valid radius it then never ends otherwise).       *)
C8_PartialFailure ==
    pc # "start" =>
        /\ pts = UsablePoints(inputs)
        /\ (pc = "nodata" <=> (pts = <<>> /\ pc # "loaded"))
        /\ ((\E i \in 1..Len(log) : log[i].level = "ERROR") <=> pc = "nodata")
        /\ (hex_m > 0 => pc # "crashed")

(* a run that completed although an input was dropped *)
C8_Witness ==
    /\ pc = "done"
    /\ \E i \in 1..Len(inputs) :
          \/ inputs[i].kind \in {"missing", "unreadable"}
          \/ PointsOf(inputs[i].feats) = <<>>
    /\ pts # <<>>

Warned(i) == \E n \in 1..Len(log) : log[n].level = "WARN" /\ log[n].file = i

(* C9 as claimed: every missing or unreadable input has a warning. *)
C9_WarnOnEverySkip ==
    pc # "start" =>
        \A i \in 1..Len(inputs) :
            inputs[i].kind \in {"missing", "unreadable"} => Warned(i)

(* C9 amended: an input that exists but cannot be read is warned about and *)
(* skipped; an input that does not exist is skipped without any message.   *)
C9_WarnOnUnreadable ==
    pc # "start" =>
        \A i \in 1..Len(inputs) :
            /\ inputs[i].kind = "unreadable" => Warned(i)
            /\ inputs[i].kind = "missing" =>
                   \A n \in 1..Len(log) : log[n].file # i
            /\ Warned(i) => inputs[i].kind = "unreadable"

(* a load with a missing and an unreadable input *)
C9_Witness ==
    /\ pc = "loaded"
    /\ \E i, n \in 1..Len(inputs) :
          inputs[i].kind = "missing" /\ inputs[n].kind = "unreadable"

(* C10. Every generated hexagon is in the output exactly once, in grid     *)
(* order with its hex_id; a hexagon holding no point has value 0; with a   *)
(* positive radius the output has rows x cols records.                     *)
C10_AllHexagonsExported ==
    out_file.state = "written" =>
        LET grid == make_hex_grid(total_bounds(pts), hex_m)
            recs == out_file.records
        IN /\ Len(recs) = Len(grid)
           /\ \A k \in 1..Len(grid) :
                 /\ Cardinality({n \in 1..Len(recs) :
                                   recs[n].geometry = grid[k]}) = 1
                 /\ recs[k].geometry = grid[k]
                 /\ recs[k].hex_id = k - 1
                 /\ (\A i \in 1..Len(pts) :
                        ~within(pts[i].x, pts[i].y, grid[k]))
                    => recs[k].value = 0
           /\ hex_m > 0 =>
                 Len(recs) = Rows(total_bounds(pts), hex_m)
                             * Cols(total_bounds(pts), hex_m)

(* an output with hexagons that hold a point and hexagons that hold none *)
C10_Witness ==
    /\ out_file.state = "written"
    /\ \E k, n \in 1..Len(out_file.records) :
          /\ out_file.records[k].value = 0 /\ joined # {}
          /\ \A pr \in joined : pr[2] # out_file.records[k].hex_id
          /\ \E pr \in joined : pr[2] = out_file.records[n].hex_id

DensitySet == pc \in {"density", "done"}

(* C11. For every hexagon density_per_km2 is value / area_km2 when         *)
(* area_km2 > 0 and 0.0 otherwise; nothing is divided by zero, so no       *)
(* density is NaN or infinite.                                             *)
C11_DensityGuarded ==
    DensitySet =>
        \A k \in 1..Len(hex_gdf) :
            LET row == hex_gdf[k]
            IN /\ row.density_per_km2[2] # 0
               /\ row.area_km2 > 0 =>
                     row.density_per_km2 = <<row.value, row.area_km2>>
               /\ row.area_km2 <= 0 => row.density_per_km2 = <<0, 1>>

(* a frame with a zero-area hexagon holding a value and a proper hexagon *)
C11_Witness ==
    /\ pc = "done"
    /\ \E k, n \in 1..Len(hex_gdf) :
          /\ hex_gdf[k].area_km2 = 0 /\ hex_gdf[k].value # 0
          /\ hex_gdf[k].density_per_km2 = <<0, 1>>
          /\ hex_gdf[n].area_km2 > 0 /\ hex_gdf[n].value # 0
          /\ hex_gdf[n].density_per_km2[1] = hex_gdf[n].value

(* sign of the fraction <<numerator, denominator>> *)
NonNegative(d) == d[1] * d[2] >= 0 /\ d[2] # 0

(* C12 as claimed: with a positive radius every hexagon has area_km2 >= 0  *)
(* and density_per_km2 >= 0, whatever the points and with or without a     *)
(* weight field.                                                           *)
C12_NonNegative ==
    (DensitySet /\ hex_m > 0) =>
        \A k \in 1..Len(hex_gdf) :
            /\ hex_gdf[k].area_km2 >= 0
            /\ NonNegative(hex_gdf[k].density_per_km2)

(* C12 amended: with a positive radius every hexagon has area_km2 >= 0;    *)
(* density_per_km2 >= 0 holds for every hexagon of an unweighted run and   *)
(* of a weighted run in which no loaded point has a negative weight, and a *)
(* density is negative exactly when the hexagon's value is.                *)
C12_NonNegativeUnlessNegativeWeight ==
    (DensitySet /\ hex_m > 0) =>
        \A k \in 1..Len(hex_gdf) :
            /\ hex_gdf[k].area_km2 >= 0
            /\ (weight_field = "none"
                \/ \A i \in 1..Len(pts) : pts[i].hasw => pts[i].w >= 0)
               => NonNegative(hex_gdf[k].density_per_km2)
            /\ NonNegative(hex_gdf[k].density_per_km2)
               <=> hex_gdf[k].value >= 0

(* a weighted run without negative weights and with a positive density *)
C12_Witness ==
    /\ pc = "done"
    /\ hex_m > 0
    /\ weight_field = "w"
    /\ \E i \in 1..Len(pts) : pts[i].hasw
    /\ \A i \in 1..Len(pts) : pts[i].hasw => pts[i].w >= 0
    /\ \E k \in 1..Len(hex_gdf) :
          hex_gdf[k].density_per_km2[1] > 0 /\ hex_gdf[k].area_km2 > 0

(* the least n with n * step >= length, for step > 0: ceil(length / step) *)
CeilOf(length, step) ==
    CHOOSE n \in 0..(length + 1) : n * step >= length /\ (n - 1) * step < length

PaddedWidth ==
    (to_merc(total_bounds(pts).maxx) + 2 * 1000 * hex_m)
    - (to_merc(total_bounds(pts).minx) - 2 * 1000 * hex_m)

PaddedHeight ==
    (to_merc(total_bounds(pts).maxy) + 2 * 1000 * hex_m)
    - (to_merc(total_bounds(pts).miny) - 2 * 1000 * hex_m)

ExpectedCols == CeilOf(PaddedWidth, 1732 * hex_m) + 1
ExpectedRows == CeilOf(PaddedHeight, 1500 * hex_m) + 1

(* C13. With a positive radius the hex_id values are exactly               *)
(* 0 .. rows*cols-1, each once and in order, and the hexagon with hex_id k *)
(* is the one generated for row k div cols and column k mod cols, where    *)
(* cols = ceil(padded_width / dx) + 1 and rows = ceil(padded_height / dy)  *)
(* + 1.                                                                    *)
C13_DenseRowMajorIds ==
    (GridBuilt /\ hex_m > 0) =>
        /\ Len(hex_gdf) = ExpectedRows * ExpectedCols
        /\ \A k \in 1..Len(hex_gdf) :
              /\ hex_gdf[k].hex_id = k - 1
              /\ hex_gdf[k].geometry =
                    HexVerts(CenterX(total_bounds(pts), hex_m,
                                     hex_gdf[k].hex_id \div ExpectedCols,
                                     hex_gdf[k].hex_id % ExpectedCols),
                             CenterY(total_bounds(pts), hex_m,
                                     hex_gdf[k].hex_id \div ExpectedCols),
                             hex_m)

(* an exported grid of 4 rows and 5 columns *)
C13_Witness ==
    /\ pc = "done"
    /\ hex_m > 0
    /\ ExpectedRows = 4 /\ ExpectedCols = 5
    /\ hex_gdf[Len(hex_gdf)].hex_id = 19

(* the planar centre of the hexagon stored at position k of the grid *)
CentreOf(k) ==
    << CenterX(total_bounds(pts), hex_m, (k - 1) \div ExpectedCols,
               (k - 1) % ExpectedCols),
       CenterY(total_bounds(pts), hex_m, (k - 1) \div ExpectedCols) >>

(* C14. With a positive radius every generated hexagon is pointy-top: it   *)
(* has exactly 6 vertices and one of them lies due north of its centre, at *)
(* the centre's x and at the centre's y plus the radius.                   *)
C14_PointyTop ==
    (GridBuilt /\ hex_m > 0) =>
        \A k \in 1..Len(hex_gdf) :
            /\ Len(hex_gdf[k].geometry) = 6
            /\ \E i \in 1..6 :
                  hex_gdf[k].geometry[i] =
                      << to_wgs(CentreOf(k)[1]),
                         to_wgs(CentreOf(k)[2] + 1000 * hex_m) >>

(* all loaded points share one longitude or one latitude *)
DegenerateBox ==
    /\ Len(pts) > 0
    /\ \/ total_bounds(pts).minx = total_bounds(pts).maxx
       \/ total_bounds(pts).miny = total_bounds(pts).maxy

(* C15. A bounding box of zero width or zero height still produces at      *)
(* least one hexagon for any positive radius, and every loaded point is    *)
(* inside some hexagon of that grid.                                       *)
C15_DegenerateBoxCovered ==
    (GridBuilt /\ hex_m > 0 /\ DegenerateBox) =>
        /\ Len(hex_gdf) >= 1
        /\ \A i \in 1..Len(pts) : Containing(pts[i]) # {}

(* the number of hexagons the generator makes for the loaded points at     *)
(* twice the radius of the run                                             *)
CountAtDouble == Len(make_hex_grid(total_bounds(pts), 2 * hex_m))

(* the projected width and height of the points' bounding box *)
BoxWidth == to_merc(total_bounds(pts).maxx) - to_merc(total_bounds(pts).minx)
BoxHeight == to_merc(total_bounds(pts).maxy) - to_merc(total_bounds(pts).miny)

(* C17. For every bounding box and positive radius R the grid of radius    *)
(* 2R has strictly fewer hexagons than the grid of radius R.               *)
C17_StrictlyFewer ==
    (GridBuilt /\ hex_m > 0) => CountAtDouble < Len(hex_gdf)

(* C17 as the code has it: the grid of radius 2R never has more hexagons   *)
(* than the grid of radius R, and has strictly fewer when the box is at    *)
(* least 2*sqrt(3)*R wide or at least 3*R high; the padding grows with the *)
(* radius, so a single point gets 4 rows of 4 hexagons at every radius.    *)
C17_FewerWhenBoxIsWide ==
    (GridBuilt /\ hex_m > 0) =>
        /\ CountAtDouble <= Len(hex_gdf)
        /\ (BoxWidth >= 2 * 1732 * hex_m \/ BoxHeight >= 2 * 1500 * hex_m)
              => CountAtDouble < Len(hex_gdf)
        /\ (BoxWidth = 0 /\ BoxHeight = 0)
              => (CountAtDouble = 16 /\ Len(hex_gdf) = 16)

(* a grid over a box wide enough for the count to drop *)
C17_Witness ==
    /\ pc = "grid"
    /\ hex_m > 0
    /\ BoxWidth >= 2 * 1732 * hex_m
    /\ BoxHeight < 2 * 1500 * hex_m
    /\ CountAtDouble < Len(hex_gdf)

ExampleRun == inputs = <<ExampleFile>> /\ hex_m = 1

(* C18. The example run (four points, radius 2000 m, no weights) yields    *)
(* hexagon values that sum to 4, at least one hexagon of value >= 2, and   *)
(* the last two points each alone in a cell of their own.                  *)
C18_ExampleScenario ==
    (Aggregated /\ ExampleRun) =>
        /\ TotalValue = 4
        /\ \E k \in 1..Len(hex_gdf) : hex_gdf[k].value >= 2
        /\ \A i \in {3, 4} :
              \E k \in 1..Len(hex_gdf) :
                  Containing(pts[i]) = {k} /\ hex_gdf[k].value = 1

(* C19. After a run that writes, the output file holds exactly the records *)
(* of that run's grid, in order, whatever the file held before: no record  *)
(* of an earlier run is left in it; before the export the file is as the   *)
(* run found it.                                                           *)
C19_WrittenInFull ==
    /\ pc = "done" =>
          /\ out_file.state = "written"
          /\ out_file.records = hex_gdf
          /\ \A k \in 1..Len(out_file.records) :
                out_file.records[k] # StaleRecord
    /\ pc # "done" => out_file \in OutFiles

(* a run that has written a grid with a counted point *)
C19_Witness ==
    /\ pc = "done"
    /\ out_file.state = "written"
    /\ Len(out_file.records) >= 16
    /\ \E k \in 1..Len(out_file.records) : out_file.records[k].value > 0

(* the number of single-point features among the first j features of       *)
(* input i, none when the input is missing or unreadable                   *)
PointCount(i, j) ==
    IF inputs[i].kind = "ok"
    THEN Cardinality({ m \in 1..j : inputs[i].feats[m].gtype = "Point" })
    ELSE 0

(* the position in the merged set of feature j of input i *)
Rank(i, j) ==
    SumSeq([ m \in 1..(i - 1) |-> PointCount(m, Len(inputs[m].feats)) ])
    + PointCount(i, j)

(* C20. The merged point set is the concatenation, in input-list order, of *)
(* the single-point features of each readable input: it holds no other    *)
(* geometry, every point feature of a readable input is in it at the       *)
(* position its input and its place in the input give it, with its         *)
(* attribute fields (weight included) unchanged, and it holds nothing      *)
(* else.                                                                   *)
C20_MergedPointSet ==
    pc # "start" =>
        /\ \A n \in 1..Len(pts) : pts[n].gtype = "Point"
        /\ \A i \in 1..Len(inputs) :
              inputs[i].kind = "ok" =>
                 \A j \in 1..Len(inputs[i].feats) :
                     inputs[i].feats[j].gtype = "Point" =>
                        /\ Rank(i, j) \in 1..Len(pts)
                        /\ pts[Rank(i, j)] = inputs[i].feats[j]
        /\ Len(pts) =
              SumSeq([ m \in 1..Len(inputs) |->
                         PointCount(m, Len(inputs[m].feats)) ])

(* two readable inputs merged, one of them holding a line between its      *)
(* points                                                                  *)
C20_Witness ==
    /\ pc = "loaded"
    /\ Len(inputs) = 2
    /\ inputs[2].feats = <<PA, LineFeature, PC>>
    /\ pts = <<PB, PA, PA, PC>>

(* the order of the steps: load, grid, aggregate, density, export, with    *)
(* the two ways a run ends after loading                                   *)
StepOrder ==
    { <<"start", "loaded">>, <<"loaded", "nodata">>, <<"loaded", "crashed">>,
      <<"loaded", "grid">>, <<"grid", "aggregated">>,
      <<"aggregated", "density">>, <<"density", "done">> }

(* what a step finds when it begins, and what it leaves *)
InOrder ==
    /\ <<pc, pc'>> \in StepOrder
    /\ pc' = "loaded" =>
          (hex_gdf' = <<>> /\ joined' = {} /\ out_file' = out_file)
    /\ pc' = "grid" =>
          /\ pts' = pts /\ pts # <<>>
          /\ hex_gdf = <<>> /\ hex_columns = {}
          /\ hex_columns' = {"geometry", "hex_id"}
          /\ out_file' = out_file
    /\ pc' = "aggregated" =>
          /\ hex_columns = {"geometry", "hex_id"}
          /\ Len(hex_gdf) = Len(hex_gdf') /\ Len(hex_gdf) > 0
          /\ joined = {}
          /\ hex_columns' = {"geometry", "hex_id", "value"}
          /\ out_file' = out_file
    /\ pc' = "density" =>
          /\ hex_columns = {"geometry", "hex_id", "value"}
          /\ hex_columns' = {"geometry", "hex_id", "value", "area_km2",
                             "density_per_km2"}
          /\ out_file' = out_file
    /\ pc' = "done" =>
          /\ hex_columns = {"geometry", "hex_id", "value", "area_km2",
                            "density_per_km2"}
          /\ out_file.state # "written"
          /\ out_file'.state = "written"
          /\ \A k \in 1..Len(out_file'.records) :
                /\ out_file'.records[k].area_km2 > 0
                /\ out_file'.records[k].density_per_km2[2] =
                      out_file'.records[k].area_km2

(* C21. The steps of a run happen strictly in the order load points, build *)
(* grid, aggregate, compute density, export; each step begins with the     *)
(* full output of the one before, and the export happens only once every   *)
(* hexagon has its value, area and density set.                            *)
C21_StepsInOrder == [][InOrder]_vars

(* a completed run whose grid holds a counted point *)
C21_Witness ==
    /\ pc = "done"
    /\ Len(log) >= 2
    /\ hex_columns = {"geometry", "hex_id", "value", "area_km2",
                      "density_per_km2"}
    /\ \E k \in 1..Len(hex_gdf) :
          hex_gdf[k].value # 0 /\ hex_gdf[k].area_km2 > 0

(* the hexagons are the same, in the same order, with the same geometry    *)
(* and hex_id                                                              *)
SameCells ==
    /\ Len(hex_gdf') = Len(hex_gdf)
    /\ \A k \in 1..Len(hex_gdf) :
          /\ hex_gdf'[k].geometry = hex_gdf[k].geometry
          /\ hex_gdf'[k].hex_id = hex_gdf[k].hex_id

FrameConditions ==
    /\ pc # "start" => pts' = pts
    /\ pc \in {"grid", "aggregated", "density", "done"} => SameCells
    /\ pc = "grid" =>
          \A k \in 1..Len(hex_gdf) :
              /\ hex_gdf'[k].area_km2 = hex_gdf[k].area_km2
              /\ hex_gdf'[k].density_per_km2 = hex_gdf[k].density_per_km2
    /\ pc = "aggregated" =>
          \A k \in 1..Len(hex_gdf) : hex_gdf'[k].value = hex_gdf[k].value
    /\ pc \in {"density", "done"} => hex_gdf' = hex_gdf

(* C22. After the grid is generated no step adds, removes or reorders      *)
(* hexagons or changes a geometry or a hex_id; aggregation changes only    *)
(* value, the density step changes only area_km2 and density_per_km2, the  *)
(* export changes no hexagon, and no step changes the loaded points.       *)
C22_FrameConditions == [][FrameConditions]_vars

(* the density step has run on a grid with counted and empty hexagons over *)
(* several points                                                          *)
C22_Witness ==
    /\ pc = "density"
    /\ Len(pts) >= 2
    /\ \E k \in 1..Len(hex_gdf) : hex_gdf[k].value # 0
    /\ \E k \in 1..Len(hex_gdf) : hex_gdf[k].value = 0

(* the signed areas of the point against the six edges of the polygon *)
EdgeSides(pt, poly) ==
    { (poly[(i % 6) + 1][1] - poly[i][1]) * (pt.y - poly[i][2])
      - (poly[(i % 6) + 1][2] - poly[i][2]) * (pt.x - poly[i][1]) :
      i \in 1..6 }

(* strictly inside: on the same side of all six edges, on none of them *)
StrictlyInside(pt, poly) ==
    \/ \A a \in EdgeSides(pt, poly) : a > 0
    \/ \A a \in EdgeSides(pt, poly) : a < 0

(* on the boundary: on an edge or a vertex of the polygon *)
OnBoundary(pt, poly) ==
    /\ 0 \in EdgeSides(pt, poly)
    /\ \/ \A a \in EdgeSides(pt, poly) : a >= 0
       \/ \A a \in EdgeSides(pt, poly) : a <= 0

UnweightedRun == ~(weight_field # "none" /\ weight_field \in columns)

(* C23. In an unweighted run the value of each hexagon is the number of    *)
(* loaded points strictly inside its polygon, counted hexagon by hexagon:  *)
(* a point on the boundary of a hexagon is not counted for it, a point     *)
(* strictly inside k hexagons is counted k times, and the values sum to    *)
(* the number of (point, containing hexagon) pairs.                        *)
C23_CountStrictlyInside ==
    (Aggregated /\ UnweightedRun) =>
        /\ \A k \in 1..Len(hex_gdf) :
              hex_gdf[k].value =
                 Cardinality({ i \in 1..Len(pts) :
                                 StrictlyInside(pts[i], hex_gdf[k].geometry) })
        /\ \A k \in 1..Len(hex_gdf) :
              \A i \in 1..Len(pts) :
                 OnBoundary(pts[i], hex_gdf[k].geometry) =>
                    hex_gdf[k].value =
                       Cardinality({ n \in 1..Len(pts) :
                                       /\ n # i
                                       /\ StrictlyInside(
                                             pts[n], hex_gdf[k].geometry) })
        /\ TotalValue =
              SumSeq([ i \in 1..Len(pts) |->
                         Cardinality({ k \in 1..Len(hex_gdf) :
                            StrictlyInside(pts[i], hex_gdf[k].geometry) }) ])

(* an unweighted aggregation in which one point lies on the boundary of a  *)
(* hexagon that counts only the point inside it, and a point is counted    *)
(* twice                                                                   *)
C23_Witness ==
    /\ Aggregated /\ UnweightedRun
    /\ \E i \in 1..Len(pts) : \E k \in 1..Len(hex_gdf) :
          /\ OnBoundary(pts[i], hex_gdf[k].geometry)
          /\ hex_gdf[k].value = 1
          /\ \E n \in 1..Len(pts) :
                n # i /\ StrictlyInside(pts[n], hex_gdf[k].geometry)
    /\ \E i \in 1..Len(pts) :
          Cardinality({ k \in 1..Len(hex_gdf) :
             StrictlyInside(pts[i], hex_gdf[k].geometry)
             /\ hex_gdf[k].value >= 1 }) = 2

(* no step of a run without usable points touches the output file, and     *)
(* such a run ends at the report of "no point data"                        *)
NoPointsNoWrite ==
    (pc = "start" \/ pts = <<>>) =>
        /\ out_file' = out_file
        /\ pts' = <<>> => pc' \in {"loaded", "nodata"}

(* C24. A run that loads zero usable points leaves a file that exists at   *)
(* the output path exactly as it was, neither deleted, truncated nor       *)
(* rewritten, so the file may still hold the result of an earlier run.     *)
C24_StaleOutputKept == [][NoPointsNoWrite]_vars

(* a run over inputs without points has ended and the earlier result is    *)
(* still in the file                                                       *)
C24_Witness ==
    /\ pc = "nodata"
    /\ inputs # <<>>
    /\ pts = <<>>
    /\ out_file = [state |-> "stale", records |-> <<StaleRecord>>]

====
